---- MODULE Spec2Model ----
(***************************************************************************)
(* Model of the ollamago client: one call of one API operation.  The       *)
(* streaming operations (GenerateStream, ChatStream, PullModelStream,      *)
(* PushModelStream) run a session goroutine that talks to the caller over  *)
(* an unbuffered response channel and an error channel of capacity 1; the  *)
(* other operations are synchronous calls of Client.request.               *)
(***************************************************************************)
EXTENDS Integers, Sequences, FiniteSets, TLC

\* ------------------------------------------------------------------ bounds
MaxBody == 3
MaxLiveBody == 2
MaxHost == 5
MaxDuoBody == 2
MaxExampleBody == 3
MaxTruncBody == 2
MaxProgressBody == 3

\* --------------------------------------------------------------- constants
StatusOK == 200
ErrChanCap == 1

\* ------------------------------------------------------------------ inputs
StreamOps == {"GenerateStream", "ChatStream", "PullModelStream", "PushModelStream"}

CallOps == {"Generate", "Chat", "Embeddings", "CreateModel", "ShowModel",
            "CopyModel", "DeleteModel", "PullModel", "PushModel", "ListModels"}

Ops == StreamOps \cup CallOps

\* Operations that stop at the first event whose Done flag is set.
DoneOps == {"GenerateStream", "ChatStream"}

\* Operations whose events are ProgressResponse values.
ProgressOps == {"PullModelStream", "PushModelStream"}

\* HTTP statuses the server may answer with.
Statuses == {200, 201, 204, 404, 500}

\* Content-Type header values, as sequences of the pieces of the header.
ContentTypes == { <<"application/x-ndjson">>,
                  <<"application/json">>,
                  <<"application/json", "; charset=utf-8">>,
                  <<"text/plain">>,
                  << >> }

\* One element of a response body.  k is what the bytes are:
\*   "rec"   a well-formed JSON object with done=false
\*   "done"  a well-formed JSON object with done=true
\*   "bad"   bytes that do not decode into the response type
\*   "big"   a well-formed JSON object (done=false) longer than the
\*           buffer of a bufio.Scanner
\*   "blank" nothing (an empty line)
\* nl tells whether a newline follows the element.
Kinds == {"rec", "done", "bad", "big"}

Elements == [k : Kinds, nl : BOOLEAN] \cup {[k |-> "blank", nl |-> TRUE]}

SeqsUpTo(S, n) == UNION {[1..m -> S] : m \in 0..n}

Bodies == SeqsUpTo(Elements, MaxBody)

\* The bodies of the specification with fairness.
LiveBodies == SeqsUpTo(Elements, MaxLiveBody)

\* The answers of the specification with two sessions: a success or an error
\* status, NDJSON, and lines that are a well-formed or a malformed record.
DuoStatuses == {200, 404}

DuoContentTypes == { <<"application/x-ndjson">> }

DuoBodies == SeqsUpTo({[k |-> "rec", nl |-> TRUE], [k |-> "bad", nl |-> TRUE]}, MaxDuoBody)

DuoOps == {"GenerateStream", "PullModelStream"}

\* A body that ends in the middle of a record: complete well-formed records,
\* one per line, then the first bytes of a JSON object and no newline.
Truncated == [k |-> "trunc", nl |-> FALSE]

TruncBodies ==
    {b \o <<Truncated>> : b \in SeqsUpTo([k : {"rec", "done", "big"}, nl : {TRUE}], MaxTruncBody)}

\* Bodies of progress records: a plain status, a final status ("done"), or a
\* record with a non-empty error field ("err"); with a newline after it or not.
ProgressBodies == SeqsUpTo([k : {"rec", "done", "err"}, nl : BOOLEAN], MaxProgressBody)

\* The bodies the session of the example consumer gets: lines that are a
\* well-formed record, with done or not, or a malformed one.
ExampleBodies == SeqsUpTo([k : {"rec", "done", "bad"}, nl : {TRUE}], MaxExampleBody)

\* Bodies of a non-streaming answer: nothing, one value, one undecodable value.
CallBodies == { << >>, <<[k |-> "rec", nl |-> FALSE]>>, <<[k |-> "bad", nl |-> FALSE]>> }

\* Bodies of an error answer: the bytes (raw), whether they are a JSON
\* object, another JSON value or no JSON, and the "error" member of the
\* object: a string (its value in error), a number, or absent.
ErrBodies ==
    { [raw |-> "{\"error\":\"model not found\"}", json |-> "object", has |-> "string", error |-> "model not found"],
      [raw |-> "{\"error\":\"\"}", json |-> "object", has |-> "string", error |-> ""],
      [raw |-> "{\"error\":42}", json |-> "object", has |-> "number", error |-> ""],
      [raw |-> "{}", json |-> "object", has |-> "absent", error |-> ""],
      [raw |-> "[]", json |-> "other", has |-> "absent", error |-> ""],
      [raw |-> "404 page not found", json |-> "none", has |-> "absent", error |-> ""],
      [raw |-> "", json |-> "none", has |-> "absent", error |-> ""] }

NoErrBody == [raw |-> "", json |-> "none", has |-> "absent", error |-> ""]

\* ------------------------------------------------------------------ errors
NoErr == [type |-> "nil", code |-> 0, cause |-> "none", msg |-> ""]

RequestError == [type |-> "RequestError", code |-> 0, cause |-> "none", msg |-> "model is required"]

ResponseError(st, m) == [type |-> "ResponseError", code |-> st, cause |-> "none", msg |-> m]

\* ctx.Err() of a cancelled context.
CtxErr == [type |-> "ctx", code |-> 0, cause |-> "none", msg |-> ""]

\* fmt.Errorf("<msg>: %w", cause)
Wrapped(msg, cause) == [type |-> msg, code |-> 0, cause |-> cause, msg |-> ""]

NoEvent == [idx |-> 0, done |-> FALSE, error |-> FALSE]

\* ----------------------------------------------------------------- strings
\* strings.Contains
Contains(ct, needle) == \E i \in 1..Len(ct) : ct[i] = needle

\* A string is a sequence of pieces.  Host strings are made of the pieces
\* "http://" and "https://" (only in front) and of the characters "a" (a
\* letter), "8" (a digit), ":" and "/".
DefaultBaseURL == <<"http://", "127.0.0.1", ":", "11434">>

Schemes == {"http://", "https://"}

HostChars == {"a", "8", ":", "/"}

\* The host strings given to parseHost: a scheme or none, then characters.
Hosts == {sch \o rest : sch \in {<< >>} \cup {<<x>> : x \in Schemes},
                        rest \in SeqsUpTo(HostChars, MaxHost)}

\* strings.HasPrefix(host, "http://") || strings.HasPrefix(host, "https://")
HasScheme(h) == h # << >> /\ h[1] \in Schemes

\* strings.TrimSuffix(h, "/")
TrimSlash(h) == IF h # << >> /\ h[Len(h)] = "/" THEN SubSeq(h, 1, Len(h) - 1) ELSE h

\* url.Parse: the authority of scheme://rest is rest up to its first "/".
Authority(rest) ==
    IF \E i \in 1..Len(rest) : rest[i] = "/"
    THEN SubSeq(rest, 1, (CHOOSE i \in 1..Len(rest) : rest[i] = "/" /\ \A j \in 1..(i - 1) : rest[j] # "/") - 1)
    ELSE rest

\* Index of the last ":" of the authority, 0 when it has none.
LastColon(au) ==
    IF \E i \in 1..Len(au) : au[i] = ":"
    THEN CHOOSE i \in 1..Len(au) : au[i] = ":" /\ \A j \in (i + 1)..Len(au) : au[j] # ":"
    ELSE 0

\* url.Parse fails: what follows the last ":" of the authority is not a
\* (possibly empty) run of digits.
ParseFails(rest) ==
    LET au == Authority(rest) IN
    LastColon(au) # 0 /\ \E j \in (LastColon(au) + 1)..Len(au) : au[j] # "8"

\* u.Port(): the digits after the last ":" of the authority.
Port(rest) ==
    LET au == Authority(rest) IN
    IF LastColon(au) = 0 THEN << >> ELSE SubSeq(au, LastColon(au) + 1, Len(au))

\* parseHost
parseHost(h) ==
    IF h = << >>
    THEN DefaultBaseURL
    ELSE LET full == IF HasScheme(h) THEN h ELSE <<"http://">> \o h
             rest == Tail(full)
         IN  IF ParseFails(rest)
             THEN DefaultBaseURL
             ELSE IF Port(rest) = << >>
                  THEN IF full[1] = "https://"
                       THEN TrimSlash(full \o <<":", "443">>)
                       ELSE IF ~Contains(rest, ":")
                            THEN TrimSlash(full \o <<":", "11434">>)
                            ELSE TrimSlash(full)
                  ELSE TrimSlash(full)

\* ------------------------------------------------------------ pure helpers
ContentTypeOK(ct) == Contains(ct, "application/json") \/ Contains(ct, "application/x-ndjson")

IsErrorStatus(st) == st # StatusOK

\* json.Unmarshal(bodyBytes, &errResp) succeeds: the body is a JSON object
\* whose "error" member, if any, is a string.
ErrRespOK(eb) == eb.json = "object" /\ eb.has \in {"string", "absent"}

\* The message with the JSON parse left out.
ErrMessageRawOnly(eb) == eb.raw

\* Message of the ResponseError built from the error body eb.
ErrMessage(eb) == IF ErrRespOK(eb) /\ eb.error # "" THEN eb.error ELSE eb.raw

\* The validation with the check left out of PushModelStream.
RequiredIdMissingNoPushCheck(o, empty) == o \notin {"ListModels", "PushModelStream"} /\ empty

\* The validation at the top of each operation: Model or Name is "" (for
\* CopyModel: Source or Destination is ""); ListModels takes no request.
RequiredIdMissing(o, empty) == o # "ListModels" /\ empty

\* Client.requestStream after httpClient.Do returned a response with status
\* st and Content-Type ct: the error it returns (NoErr when it returns the
\* response) and the number of times it closed the body itself.
requestStream(st, ct, eb) ==
    IF IsErrorStatus(st)
    THEN [err |-> ResponseError(st, ErrMessage(eb)), closes |-> 1]
    ELSE IF ~ContentTypeOK(ct)
         THEN [err |-> Wrapped("unexpected content type", "none"), closes |-> 0]
         ELSE [err |-> NoErr, closes |-> 0]

\* Client.request after httpClient.Do returned a response with status st and
\* body b (error body eb): the error it returns.
request(st, b, eb) ==
    IF IsErrorStatus(st)
    THEN ResponseError(st, ErrMessage(eb))
    ELSE IF b = << >>
         THEN Wrapped("decoding response", "EOF")
         ELSE IF b[1].k = "bad"
              THEN Wrapped("decoding response", "json")
              ELSE NoErr

\* bufio.Scanner with ScanLines: the line that starts at element p ends at
\* the first element followed by a newline, or at the end of the body.
LineEnd(b, p) ==
    IF \E i \in p..Len(b) : b[i].nl
    THEN CHOOSE i \in p..Len(b) : b[i].nl /\ \A j \in p..(i - 1) : ~b[j].nl
    ELSE Len(b)

\* Indices of the elements that put bytes on the line from..to.
LineRecs(b, from, to) == {i \in from..to : b[i].k # "blank"}

\* The line does not fit the Scanner's buffer.
TooLong(b, from, to) == \E i \in LineRecs(b, from, to) : b[i].k = "big"

\* json.Unmarshal(line, &genResp) succeeds: the line is exactly one
\* well-formed value.
UnmarshalOK(b, from, to) ==
    /\ Cardinality(LineRecs(b, from, to)) = 1
    /\ \A i \in LineRecs(b, from, to) : b[i].k \in {"rec", "done", "big", "err"}

EventAt(b, i) == [idx |-> i, done |-> (b[i].k = "done"), error |-> (b[i].k = "err")]

\* json.Decoder: the next value starts at the first element at or after p
\* that is not white space; 0 when only white space is left.
NextValue(b, p) ==
    IF \E i \in p..Len(b) : b[i].k # "blank"
    THEN CHOOSE i \in p..Len(b) : b[i].k # "blank" /\ \A j \in p..(i - 1) : b[j].k = "blank"
    ELSE 0

\* The Done check left out of ChatStream.
StopsAfterOnlyGenerate(o, e) == o = "GenerateStream" /\ e.done

\* A progress stream that ends at a record with a non-empty error field.
StopsAfterErrorField(o, e) ==
    \/ o \in DoneOps /\ e.done
    \/ o \in ProgressOps /\ e.error

\* Whether delivering event e ends the session of operation o.
StopsAfter(o, e) == o \in DoneOps /\ e.done

\* --------------------------------------------------------------- variables
VARIABLES
    op,             \* the operation called
    idEmpty,        \* the request's required identifier is ""
    pc,             \* position of the call / of the session goroutine
    cancelled,      \* ctx.Done() is closed
    cancelAt,       \* events the caller had received when it cancelled, -1 before
    cancelPc,       \* pc of the session when the caller cancelled
    transportCalls, \* calls of httpClient.Do
    respReturned,   \* httpClient.Do returned a response
    status,         \* resp.StatusCode, 0 before the response
    ctype,          \* resp.Header.Get("Content-Type")
    body,           \* the response body
    errBody,        \* the body of an error answer
    pos,            \* next unread element of the body
    line,           \* scanner.Bytes(): the elements from..to of the body
    scanErr,        \* scanner.Err()
    cur,            \* the decoded event (genResp, chatResp, progressResp)
    deferBody,      \* defer resp.Body.Close() is registered
    bodyCloses,     \* calls of resp.Body.Close()
    delivered,      \* events the caller received, in order
    errChan,        \* buffer of the error channel
    errLog,         \* every error ever sent on the error channel
    errClosed,      \* the error channel is closed
    respClosed,     \* the response channel is closed
    terminalAt,     \* events delivered when the terminal outcome was published, -1 before
    ret,            \* error returned by a non-streaming call
    timedOut,       \* the timer of httpClient.Timeout has fired
    stdout,         \* what the library wrote to standard output
    decoded,        \* number of events decoded from the body
    host,           \* the host string given to parseHost
    baseURL,        \* c.baseURL
    stalled,        \* the server has stopped sending: no further byte of the body arrives
    callerStream,   \* the Stream field of the request value the caller holds
    reqStream,      \* req.Stream, the field of the operation's parameter
    exampleRet,     \* what streamingGeneration returned: "running", "nil" or "err"
    other,          \* the state of the session that is not running (two sessions)
    active          \* which of the two sessions the other variables describe

vars == <<op, idEmpty, pc, cancelled, cancelAt, cancelPc, transportCalls,
          respReturned, status, ctype, body, pos, line, scanErr, cur, deferBody, bodyCloses,
          delivered, errChan, errLog, errClosed, respClosed, terminalAt, ret,
          errBody, timedOut, stdout, decoded, host, baseURL, stalled, callerStream,
          reqStream, exampleRet, other, active>>

callVars == <<op, idEmpty, host, baseURL, other, active, callerStream, exampleRet>>
inputVars == <<callVars, reqStream>>
ctxVars == <<cancelled, cancelAt, cancelPc>>
chanVars == <<errChan, errLog, terminalAt>>
closeVars == <<errClosed, respClosed>>
readVars == <<pos, line, scanErr, cur>>
respVars == <<respReturned, status, ctype, body, errBody, stalled>>

\* A session that has not started, of operation o.
FreshSession(o) ==
    [ op |-> o, idEmpty |-> FALSE, pc |-> "start", cancelled |-> FALSE,
      cancelAt |-> -1, cancelPc |-> "none", transportCalls |-> 0,
      respReturned |-> FALSE, status |-> 0, ctype |-> << >>, body |-> << >>,
      errBody |-> NoErrBody, pos |-> 1, line |-> [from |-> 1, to |-> 0],
      scanErr |-> NoErr, cur |-> NoEvent, deferBody |-> FALSE,
      bodyCloses |-> 0, delivered |-> << >>, errChan |-> << >>,
      errLog |-> << >>, errClosed |-> FALSE, respClosed |-> FALSE,
      terminalAt |-> -1, ret |-> NoErr, timedOut |-> FALSE, decoded |-> 0,
      stalled |-> FALSE, callerStream |-> FALSE, reqStream |-> FALSE ]

\* The running session and the client before the first step.
InitSession ==
    /\ op \in Ops
    /\ idEmpty \in BOOLEAN
    /\ pc = "start"
    /\ cancelled = FALSE
    /\ cancelAt = -1
    /\ cancelPc = "none"
    /\ transportCalls = 0
    /\ respReturned = FALSE
    /\ status = 0
    /\ ctype = << >>
    /\ body = << >>
    /\ pos = 1
    /\ line = [from |-> 1, to |-> 0]
    /\ scanErr = NoErr
    /\ cur = NoEvent
    /\ deferBody = FALSE
    /\ bodyCloses = 0
    /\ delivered = << >>
    /\ errChan = << >>
    /\ errLog = << >>
    /\ errClosed = FALSE
    /\ respClosed = FALSE
    /\ terminalAt = -1
    /\ ret = NoErr
    /\ errBody = NoErrBody
    /\ timedOut = FALSE
    /\ stdout = << >>
    /\ decoded = 0
    /\ stalled = FALSE
    /\ reqStream = callerStream
    /\ exampleRet = "running"
    /\ host = << >>
    /\ baseURL = DefaultBaseURL
    /\ active = 1

\* One call on one client; no second session runs.
Init ==
    /\ callerStream = FALSE
    /\ InitSession
    /\ other = FreshSession("ListModels")

\* Why a transport call or a read of the body fails once the context is
\* cancelled or the client's timer has fired.
AbortCauses == (IF cancelled THEN {"ctx"} ELSE {}) \cup (IF timedOut THEN {"timeout"} ELSE {})

\* errChan <- e without the return that follows it inside the read loop
SendErrNoReturn(e) ==
    /\ Len(errChan) < ErrChanCap
    /\ errChan' = Append(errChan, e)
    /\ errLog' = Append(errLog, e)
    /\ terminalAt' = IF terminalAt = -1 THEN Len(delivered) ELSE terminalAt
    /\ pc' = IF pc \in {"inLoop", "send"} THEN "loop" ELSE "exit"

\* errChan <- e; return
SendErrAndReturn(e) ==
    /\ Len(errChan) < ErrChanCap
    /\ errChan' = Append(errChan, e)
    /\ errLog' = Append(errLog, e)
    /\ terminalAt' = IF terminalAt = -1 THEN Len(delivered) ELSE terminalAt
    /\ pc' = "exit"

\* The non-streaming operations whose request has a Stream field they set.
UnaryStreamOps == {"Generate", "Chat"}

\* ----------------------------------------------------------------- actions
\* The streaming operation taking its request by pointer: the assignment
\* writes the caller's value.
ValidateStreamByPointer ==
    /\ pc = "start"
    /\ op \in StreamOps
    /\ IF RequiredIdMissing(op, idEmpty)
       THEN SendErrAndReturn(RequestError) /\ UNCHANGED <<reqStream, callerStream>>
       ELSE /\ pc' = "request"
            /\ reqStream' = TRUE
            /\ callerStream' = TRUE
            /\ UNCHANGED chanVars
    /\ UNCHANGED <<op, idEmpty, host, baseURL, other, active, exampleRet, timedOut, stdout,
                   decoded, ctxVars, transportCalls, respVars, readVars, deferBody, bodyCloses,
                   delivered, closeVars, ret>>

\* if req.Model == "" { ... } at the top of a streaming operation
ValidateStream ==
    /\ pc = "start"
    /\ op \in StreamOps
    /\ IF RequiredIdMissing(op, idEmpty)
       THEN SendErrAndReturn(RequestError) /\ UNCHANGED reqStream
       ELSE pc' = "request" /\ reqStream' = TRUE /\ UNCHANGED chanVars
    /\ UNCHANGED <<callVars, timedOut, stdout, decoded, ctxVars, transportCalls, respVars,
                   readVars, deferBody, bodyCloses, delivered, closeVars, ret>>

\* the same check at the top of a non-streaming operation
ValidateCall ==
    /\ pc = "start"
    /\ op \in CallOps
    /\ IF RequiredIdMissing(op, idEmpty)
       THEN pc' = "done" /\ ret' = RequestError /\ UNCHANGED reqStream
       ELSE /\ pc' = "request"
            /\ ret' = ret
            /\ reqStream' = IF op \in UnaryStreamOps THEN FALSE ELSE reqStream
    /\ UNCHANGED <<callVars, timedOut, stdout, decoded, ctxVars, transportCalls, respVars,
                   readVars, deferBody, bodyCloses, delivered, chanVars, closeVars>>

\* resp, err := c.requestStream(...); httpClient.Do fails
RequestStreamTransportError ==
    /\ pc = "request"
    /\ op \in StreamOps
    /\ transportCalls' = transportCalls + 1
    /\ \E c \in AbortCauses \cup {"net"} : SendErrAndReturn(Wrapped("making request", c))
    /\ UNCHANGED <<inputVars, timedOut, stdout, decoded, ctxVars, respVars, readVars, deferBody,
                   bodyCloses, delivered, closeVars, ret>>

\* resp, err := c.requestStream(...); httpClient.Do returns a response whose
\* status is one of St, whose Content-Type is one of Ct and whose body, when
\* the answer is accepted, is one of B
RequestStreamResponseFrom(St, Ct, B) ==
    /\ pc = "request"
    /\ op \in StreamOps
    /\ AbortCauses = {}
    /\ transportCalls' = transportCalls + 1
    /\ respReturned' = TRUE
    /\ \E st \in St, ct \in Ct :
         /\ status' = st
         /\ ctype' = ct
         /\ IF IsErrorStatus(st)
            THEN \E eb \in ErrBodies :
                   /\ errBody' = eb
                   /\ SendErrAndReturn(requestStream(st, ct, eb).err)
                   /\ bodyCloses' = bodyCloses + requestStream(st, ct, eb).closes
                   /\ UNCHANGED <<body, deferBody>>
            ELSE LET r == requestStream(st, ct, NoErrBody) IN
                 IF r.err # NoErr
                 THEN /\ SendErrAndReturn(r.err)
                      /\ bodyCloses' = bodyCloses + r.closes
                      /\ UNCHANGED <<body, errBody, deferBody>>
                 ELSE /\ \E b \in B : body' = b
                      /\ deferBody' = TRUE
                      /\ pc' = "loop"
                      /\ UNCHANGED <<errBody, bodyCloses, chanVars>>
    /\ UNCHANGED <<inputVars, timedOut, stdout, decoded, ctxVars, readVars, delivered, closeVars, ret,
                   stalled>>

RequestStreamResponse == RequestStreamResponseFrom(Statuses, ContentTypes, Bodies)

RequestStreamResponseLive == RequestStreamResponseFrom(Statuses, ContentTypes, LiveBodies)

RequestStreamResponseExample == RequestStreamResponseFrom(Statuses, ContentTypes, ExampleBodies)

RequestStreamResponseTrunc == RequestStreamResponseFrom({200}, DuoContentTypes, TruncBodies)

RequestStreamResponseProgress ==
    RequestStreamResponseFrom({200}, DuoContentTypes, ProgressBodies)

RequestStreamResponseDuo == RequestStreamResponseFrom(DuoStatuses, DuoContentTypes, DuoBodies)

\* for scanner.Scan() in GenerateStream
Scan ==
    /\ pc = "loop"
    /\ op = "GenerateStream"
    /\ \/ \* the request was aborted and the read of the body fails
          /\ \E c \in AbortCauses : scanErr' = Wrapped("read", c)
          /\ pc' = "afterLoop"
          /\ UNCHANGED <<pos, line>>
       \/ \* the body is exhausted
          /\ ~stalled
          /\ pos > Len(body)
          /\ pc' = "afterLoop"
          /\ UNCHANGED <<pos, line, scanErr>>
       \/ /\ ~stalled
          /\ pos <= Len(body)
          /\ LET to == LineEnd(body, pos) IN
             IF TooLong(body, pos, to)
             THEN /\ scanErr' = Wrapped("bufio.Scanner", "token too long")
                  /\ pc' = "afterLoop"
                  /\ UNCHANGED <<pos, line>>
             ELSE /\ line' = [from |-> pos, to |-> to]
                  /\ pos' = to + 1
                  /\ pc' = "inLoop"
                  /\ UNCHANGED scanErr
    /\ UNCHANGED <<inputVars, timedOut, stdout, decoded, ctxVars, transportCalls, respVars, cur,
                   deferBody, bodyCloses, delivered, chanVars, closeVars, ret>>

\* the body of the scanner loop up to the send: the cancellation check, the
\* skip of an empty line, json.Unmarshal
ScanLoopBody ==
    /\ pc = "inLoop"
    /\ IF cancelled
       THEN SendErrAndReturn(CtxErr) /\ UNCHANGED cur
       ELSE IF LineRecs(body, line.from, line.to) = {}
            THEN pc' = "loop" /\ UNCHANGED <<cur, chanVars>>
            ELSE IF ~UnmarshalOK(body, line.from, line.to)
                 THEN SendErrAndReturn(Wrapped("failed to decode response", "json"))
                      /\ UNCHANGED cur
                 ELSE /\ cur' = EventAt(body, CHOOSE i \in LineRecs(body, line.from, line.to) : TRUE)
                      /\ pc' = "send"
                      /\ UNCHANGED chanVars
    /\ decoded' = IF pc' = "send" THEN decoded + 1 ELSE decoded
    /\ UNCHANGED <<inputVars, timedOut, stdout, ctxVars, transportCalls, respVars, pos,
                   line, scanErr, deferBody, bodyCloses, delivered, closeVars, ret>>

\* if err := scanner.Err(); err != nil { errChan <- ... }
AfterScanLoop ==
    /\ pc = "afterLoop"
    /\ IF scanErr # NoErr
       THEN SendErrAndReturn(Wrapped("error reading response", scanErr.cause))
       ELSE pc' = "exit" /\ UNCHANGED chanVars
    /\ UNCHANGED <<inputVars, timedOut, stdout, decoded, ctxVars, transportCalls, respVars,
                   readVars, deferBody, bodyCloses, delivered, closeVars, ret>>

\* decoder.Decode(&resp) in ChatStream, PullModelStream, PushModelStream
Decode ==
    /\ pc = "loop"
    /\ op \in StreamOps \ {"GenerateStream"}
    /\ \/ \* the request was aborted and the read of the body fails
          /\ \E c \in AbortCauses : SendErrAndReturn(Wrapped("decode error", c))
          /\ UNCHANGED <<pos, cur>>
       \/ /\ ~stalled
          /\ LET i == NextValue(body, pos) IN
             IF i = 0
             THEN \* io.EOF
                  pc' = "exit" /\ UNCHANGED <<pos, cur, chanVars>>
             ELSE IF body[i].k = "bad"
                  THEN SendErrAndReturn(Wrapped("decode error", "json")) /\ UNCHANGED <<pos, cur>>
             ELSE IF body[i].k = "trunc"
                  THEN /\ SendErrAndReturn(Wrapped("decode error", "unexpected EOF"))
                       /\ UNCHANGED <<pos, cur>>
                  ELSE /\ cur' = EventAt(body, i)
                       /\ pos' = i + 1
                       /\ pc' = "send"
                       /\ UNCHANGED chanVars
    /\ decoded' = IF pc' = "send" THEN decoded + 1 ELSE decoded
    /\ UNCHANGED <<inputVars, timedOut, stdout, ctxVars, transportCalls, respVars, line,
                   scanErr, deferBody, bodyCloses, delivered, closeVars, ret>>

\* The send on a response channel made with a buffer: the session goes on
\* reading before the caller has received the event.
DeliverBuffered ==
    /\ pc = "send"
    /\ pc' = IF StopsAfter(op, cur) THEN "exit" ELSE "loop"
    /\ UNCHANGED <<inputVars, timedOut, stdout, decoded, ctxVars, transportCalls, respVars,
                   readVars, deferBody, bodyCloses, delivered, chanVars, closeVars, ret>>

\* select { case responseChan <- resp: ... }: the caller receives the event
Deliver ==
    /\ pc = "send"
    /\ delivered' = Append(delivered, cur)
    /\ pc' = IF StopsAfter(op, cur) THEN "exit" ELSE "loop"
    /\ UNCHANGED <<inputVars, timedOut, stdout, decoded, ctxVars, transportCalls, respVars,
                   readVars, deferBody, bodyCloses, chanVars, closeVars, ret>>

\* The send written without the ctx.Done() case: nothing but the caller's
\* receive ends the wait.
SendWithoutDoneCase ==
    /\ pc = "send"
    /\ FALSE
    /\ UNCHANGED vars

\* select { ... case <-ctx.Done(): errChan <- ctx.Err(); return }
SendCancelled ==
    /\ pc = "send"
    /\ cancelled
    /\ SendErrAndReturn(CtxErr)
    /\ UNCHANGED <<inputVars, timedOut, stdout, decoded, ctxVars, transportCalls, respVars,
                   readVars, deferBody, bodyCloses, delivered, closeVars, ret>>

\* the deferred calls, last registered first: resp.Body.Close(),
\* close(errChan), close(responseChan)
RunDefers ==
    /\ pc = "exit"
    /\ bodyCloses' = bodyCloses + (IF deferBody THEN 1 ELSE 0)
    /\ errClosed' = TRUE
    /\ respClosed' = TRUE
    /\ terminalAt' = IF terminalAt = -1 THEN Len(delivered) ELSE terminalAt
    /\ pc' = "done"
    /\ UNCHANGED <<inputVars, timedOut, stdout, decoded, ctxVars, transportCalls, respVars,
                   readVars, deferBody, delivered, errChan, errLog, ret>>

\* Client.request for a non-streaming operation
Request ==
    /\ pc = "request"
    /\ op \in CallOps
    /\ transportCalls' = transportCalls + 1
    /\ \/ /\ \E c \in AbortCauses \cup {"net"} : ret' = Wrapped("making request", c)
          /\ UNCHANGED <<respVars, bodyCloses, stdout>>
       \/ /\ AbortCauses = {}
          /\ respReturned' = TRUE
          /\ \E st \in Statuses :
               /\ status' = st
               /\ IF IsErrorStatus(st)
                  THEN \E eb \in ErrBodies :
                         /\ errBody' = eb
                         /\ stdout' = Append(stdout, eb.raw)
                         /\ ret' = request(st, << >>, eb)
                         /\ UNCHANGED body
                  ELSE \E b \in CallBodies :
                         /\ body' = b
                         /\ ret' = request(st, b, NoErrBody)
                         /\ UNCHANGED <<errBody, stdout>>
          /\ UNCHANGED <<ctype, stalled>>
          /\ bodyCloses' = bodyCloses + 1
    /\ pc' = "done"
    /\ UNCHANGED <<inputVars, timedOut, decoded, ctxVars, readVars, deferBody, delivered, chanVars,
                   closeVars>>

\* one cancellation shared by every session of the client
CancelShared ==
    /\ ~cancelled
    /\ pc # "done"
    /\ cancelled' = TRUE
    /\ cancelAt' = Len(delivered)
    /\ cancelPc' = pc
    /\ other' = [other EXCEPT !.cancelled = TRUE]
    /\ UNCHANGED <<op, idEmpty, host, baseURL, active, callerStream, reqStream, exampleRet,
                   timedOut,
                   stdout, decoded, pc,
                   transportCalls, respVars, readVars, deferBody, bodyCloses, delivered,
                   chanVars, closeVars, ret>>

\* the caller cancels the context
Cancel ==
    /\ ~cancelled
    /\ pc # "done"
    /\ cancelled' = TRUE
    /\ cancelAt' = Len(delivered)
    /\ cancelPc' = pc
    /\ UNCHANGED <<inputVars, timedOut, stdout, decoded, pc, transportCalls, respVars, readVars,
                   deferBody, bodyCloses, delivered, chanVars, closeVars, ret>>

\* the timer of httpClient.Timeout fires while the request is in progress
ClientTimeout ==
    /\ ~timedOut
    /\ pc \in {"request", "loop", "inLoop", "send"}
    /\ timedOut' = TRUE
    /\ UNCHANGED <<inputVars, stdout, decoded, pc, ctxVars, transportCalls, respVars,
                   readVars, deferBody, bodyCloses, delivered, chanVars, closeVars, ret>>

\* the caller receives from the error channel
RecvErr ==
    /\ Len(errChan) > 0
    /\ errChan' = Tail(errChan)
    /\ UNCHANGED <<inputVars, timedOut, stdout, decoded, pc, ctxVars, transportCalls, respVars,
                   readVars, deferBody, bodyCloses, delivered, errLog,
                   terminalAt, closeVars, ret>>

Next ==
    \/ ValidateStream
    \/ ValidateCall
    \/ RequestStreamTransportError
    \/ RequestStreamResponse
    \/ Scan
    \/ ScanLoopBody
    \/ AfterScanLoop
    \/ Decode
    \/ Deliver
    \/ SendCancelled
    \/ RunDefers
    \/ Request
    \/ Cancel
    \/ ClientTimeout
    \/ RecvErr

Spec == Init /\ [][Next]_vars

\* The steps the session goroutine (or the synchronous call) takes on its
\* own: the Go scheduler runs a runnable goroutine eventually.  Receiving an
\* event, cancelling and the client's timer are the environment's steps.
SessionStep ==
    \/ ValidateStream
    \/ ValidateCall
    \/ RequestStreamTransportError
    \/ RequestStreamResponseLive
    \/ Scan
    \/ ScanLoopBody
    \/ AfterScanLoop
    \/ Decode
    \/ SendCancelled
    \/ RunDefers
    \/ Request

\* Next with the bodies of the answers drawn from LiveBodies.
NextLive ==
    \/ ValidateStream
    \/ ValidateCall
    \/ RequestStreamTransportError
    \/ RequestStreamResponseLive
    \/ Scan
    \/ ScanLoopBody
    \/ AfterScanLoop
    \/ Decode
    \/ Deliver
    \/ SendCancelled
    \/ RunDefers
    \/ Request
    \/ Cancel
    \/ ClientTimeout
    \/ RecvErr

\* The server stops sending while the session waits for the next bytes of the
\* body: the read blocks until the request is aborted.
Stall ==
    /\ pc = "loop"
    /\ ~stalled
    /\ stalled' = TRUE
    /\ UNCHANGED <<inputVars, timedOut, stdout, decoded, pc, ctxVars, transportCalls,
                   respReturned, status, ctype, body, errBody, readVars, deferBody,
                   bodyCloses, delivered, chanVars, closeVars, ret>>

\* NextLive with a server that may stop sending.
NextStall ==
    \/ ValidateStream
    \/ ValidateCall
    \/ RequestStreamTransportError
    \/ RequestStreamResponseLive
    \/ Scan
    \/ ScanLoopBody
    \/ AfterScanLoop
    \/ Decode
    \/ Deliver
    \/ SendCancelled
    \/ RunDefers
    \/ Request
    \/ Cancel
    \/ ClientTimeout
    \/ RecvErr
    \/ Stall

\* The state of the running session as one record.
Running ==
    [ op |-> op, idEmpty |-> idEmpty, pc |-> pc, cancelled |-> cancelled,
      cancelAt |-> cancelAt, cancelPc |-> cancelPc,
      transportCalls |-> transportCalls, respReturned |-> respReturned,
      status |-> status, ctype |-> ctype, body |-> body, errBody |-> errBody,
      pos |-> pos, line |-> line, scanErr |-> scanErr, cur |-> cur,
      deferBody |-> deferBody, bodyCloses |-> bodyCloses,
      delivered |-> delivered, errChan |-> errChan, errLog |-> errLog,
      errClosed |-> errClosed, respClosed |-> respClosed,
      terminalAt |-> terminalAt, ret |-> ret, timedOut |-> timedOut,
      decoded |-> decoded, stalled |-> stalled,
      callerStream |-> callerStream, reqStream |-> reqStream ]

\* Session i of the two.
Sess(i) == IF active = i THEN Running ELSE other

\* The scheduler turns to the other session: its state becomes the running
\* one and the running one is put aside.
Switch ==
    /\ other' = Running
    /\ active' = 3 - active
    /\ op' = other.op
    /\ idEmpty' = other.idEmpty
    /\ pc' = other.pc
    /\ cancelled' = other.cancelled
    /\ cancelAt' = other.cancelAt
    /\ cancelPc' = other.cancelPc
    /\ transportCalls' = other.transportCalls
    /\ respReturned' = other.respReturned
    /\ status' = other.status
    /\ ctype' = other.ctype
    /\ body' = other.body
    /\ errBody' = other.errBody
    /\ pos' = other.pos
    /\ line' = other.line
    /\ scanErr' = other.scanErr
    /\ cur' = other.cur
    /\ deferBody' = other.deferBody
    /\ bodyCloses' = other.bodyCloses
    /\ delivered' = other.delivered
    /\ errChan' = other.errChan
    /\ errLog' = other.errLog
    /\ errClosed' = other.errClosed
    /\ respClosed' = other.respClosed
    /\ terminalAt' = other.terminalAt
    /\ ret' = other.ret
    /\ timedOut' = other.timedOut
    /\ decoded' = other.decoded
    /\ stalled' = other.stalled
    /\ callerStream' = other.callerStream
    /\ reqStream' = other.reqStream
    /\ UNCHANGED <<host, baseURL, stdout, exampleRet>>

\* Two streaming sessions started on one client.
DuoInit ==
    /\ callerStream = FALSE
    /\ InitSession
    /\ op \in DuoOps
    /\ ~idEmpty
    /\ \E o \in DuoOps : other = FreshSession(o)

\* The steps of the running session and of its caller, and the switch to the
\* other session; the client's timer does not fire.
DuoNext ==
    \/ ValidateStream
    \/ RequestStreamTransportError
    \/ RequestStreamResponseDuo
    \/ Scan
    \/ ScanLoopBody
    \/ AfterScanLoop
    \/ Decode
    \/ Deliver
    \/ SendCancelled
    \/ RunDefers
    \/ Cancel
    \/ Switch

DuoSpec == DuoInit /\ [][DuoNext]_vars

\* A client built by NewClient with OLLAMA_HOST unset.
HostInit == Init /\ op = "ListModels" /\ ~idEmpty

\* WithBaseURL(h), or NewClient with OLLAMA_HOST = h
WithBaseURL ==
    /\ host = << >>
    /\ \E h \in Hosts :
         /\ host' = h
         /\ baseURL' = parseHost(h)
    /\ UNCHANGED <<op, idEmpty, pc, ctxVars, transportCalls, respVars, readVars,
                   deferBody, bodyCloses, delivered, chanVars, closeVars, ret,
                   timedOut, stdout, decoded, callerStream, reqStream, exampleRet, other,
                   active>>

HostSpec == HostInit /\ [][WithBaseURL]_vars

FairSpec == Init /\ [][NextLive]_vars /\ WF_vars(SessionStep)

\* ------------------------------------------- the consumer streamingGeneration
\* return from streamingGeneration with r; the deferred cancel() runs
ExampleReturns(r, n) ==
    /\ exampleRet' = r
    /\ cancelled' = TRUE
    /\ cancelAt' = IF cancelled THEN cancelAt ELSE n
    /\ cancelPc' = IF cancelled THEN cancelPc ELSE pc

\* What is left alone by every step of the consumer.
exampleFrame == <<op, idEmpty, host, baseURL, other, active, callerStream, reqStream,
                  timedOut, stdout, decoded, transportCalls, respVars, readVars,
                  deferBody, bodyCloses, errLog, terminalAt, closeVars, ret>>

\* case resp, ok := <-respChan with ok: the text is kept, and a record with
\* done=true ends the function with nil
ExampleRecv ==
    /\ exampleRet = "running"
    /\ pc = "send"
    /\ delivered' = Append(delivered, cur)
    /\ pc' = IF StopsAfter(op, cur) THEN "exit" ELSE "loop"
    /\ IF cur.done
       THEN ExampleReturns("nil", Len(delivered) + 1)
       ELSE UNCHANGED <<exampleRet, ctxVars>>
    /\ UNCHANGED <<exampleFrame, errChan>>

\* case resp, ok := <-respChan with !ok: nil when text was received
ExampleRespClosed ==
    /\ exampleRet = "running"
    /\ respClosed
    /\ ExampleReturns(IF Len(delivered) > 0 THEN "nil" ELSE "err", Len(delivered))
    /\ UNCHANGED <<exampleFrame, pc, delivered, errChan>>

\* case err := <-errChan with an error in the channel
ExampleRecvErr ==
    /\ exampleRet = "running"
    /\ Len(errChan) > 0
    /\ errChan' = Tail(errChan)
    /\ ExampleReturns("err", Len(delivered))
    /\ UNCHANGED <<exampleFrame, pc, delivered>>

\* case <-ctx.Done(): the 30 s deadline of the example's context has passed
ExampleCtxDone ==
    /\ exampleRet = "running"
    /\ cancelled
    /\ exampleRet' = "err"
    /\ UNCHANGED <<exampleFrame, pc, ctxVars, delivered, errChan>>

ExampleInit ==
    /\ Init
    /\ op = "GenerateStream"
    /\ ~idEmpty

\* The session of GenerateStream, the deadline of the context, the client's
\* timer, and the consumer's select.
ExampleNext ==
    \/ ValidateStream
    \/ RequestStreamTransportError
    \/ RequestStreamResponseExample
    \/ Scan
    \/ ScanLoopBody
    \/ AfterScanLoop
    \/ SendCancelled
    \/ RunDefers
    \/ Cancel
    \/ ClientTimeout
    \/ ExampleRecv
    \/ ExampleRespClosed
    \/ ExampleRecvErr
    \/ ExampleCtxDone

ExampleSpec == ExampleInit /\ [][ExampleNext]_vars

\* A streaming session whose body ends in the middle of a record.
TruncInit ==
    /\ Init
    /\ op \in StreamOps
    /\ ~idEmpty

TruncNext ==
    \/ ValidateStream
    \/ RequestStreamTransportError
    \/ RequestStreamResponseTrunc
    \/ Scan
    \/ ScanLoopBody
    \/ AfterScanLoop
    \/ Decode
    \/ Deliver
    \/ SendCancelled
    \/ RunDefers
    \/ Cancel
    \/ ClientTimeout
    \/ RecvErr

TruncSpec == TruncInit /\ [][TruncNext]_vars

\* A session of PullModelStream or PushModelStream.
ProgressInit ==
    /\ Init
    /\ op \in ProgressOps
    /\ ~idEmpty

ProgressNext ==
    \/ ValidateStream
    \/ RequestStreamTransportError
    \/ RequestStreamResponseProgress
    \/ Decode
    \/ Deliver
    \/ SendCancelled
    \/ RunDefers
    \/ Cancel
    \/ ClientTimeout
    \/ RecvErr

ProgressSpec == ProgressInit /\ [][ProgressNext]_vars

\* A call with a request whose Stream field the caller set either way.
ReqInit ==
    /\ callerStream \in BOOLEAN
    /\ InitSession
    /\ other = FreshSession("ListModels")

ReqSpec == ReqInit /\ [][NextLive]_vars

StallSpec == Init /\ [][NextStall]_vars /\ WF_vars(SessionStep)

TypeOK ==
    /\ op \in Ops
    /\ pc \in {"start", "request", "loop", "inLoop", "afterLoop", "send", "exit", "done"}
    /\ pos \in 1..(Len(body) + 1)
    /\ Len(errChan) <= ErrChanCap
    /\ bodyCloses \in 0..2
    /\ active \in {1, 2}

\* ---------------------------------------------------- vocabulary of claims
\* The events of the records of body b, in body order.
RecordIdx(b) == SelectSeq([i \in 1..Len(b) |-> i], LAMBDA i : b[i].k # "blank")

EventsOf(b) == [j \in 1..Len(RecordIdx(b)) |-> EventAt(b, RecordIdx(b)[j])]

WellFormed(e) == e.k \in {"rec", "done", "big", "err"}

\* Every element is a line of its own (NDJSON).
OneRecordPerLine(b) == \A i \in 1..Len(b) : b[i].nl

\* The session got a response it accepted and entered its read loop.
Streaming == op \in StreamOps /\ deferBody

\* The session is over; the context was never cancelled and the client's
\* timer never fired.
EndedUncancelled == pc = "done" /\ ~cancelled /\ ~timedOut

SuccessSignal == errLog = << >> /\ errClosed

DecodeErrors == {Wrapped("failed to decode response", "json"), Wrapped("decode error", "json")}

\* N >= 1 well-formed records, one per line, only the last with done=true.
DoneTerminatedBody(b) ==
    /\ OneRecordPerLine(b)
    /\ RecordIdx(b) # << >>
    /\ \A i \in 1..Len(b) : b[i].k # "blank" => WellFormed(b[i])
    /\ \A i \in 1..Len(b) : b[i].k = "done" <=> i = RecordIdx(b)[Len(RecordIdx(b))]

\* Well-formed records, one per line, none with done=true.
UnterminatedBody(b) ==
    /\ OneRecordPerLine(b)
    /\ \A i \in 1..Len(b) : b[i].k \in {"rec", "big", "blank"}

\* Position of the first malformed record, 0 when there is none.
FirstBad(b) ==
    IF \E i \in 1..Len(b) : b[i].k = "bad"
    THEN CHOOSE i \in 1..Len(b) : b[i].k = "bad" /\ \A j \in 1..(i - 1) : b[j].k # "bad"
    ELSE 0

\* Well-formed records without done=true, one per line, then a malformed one.
MalformedAtK(b) ==
    /\ OneRecordPerLine(b)
    /\ FirstBad(b) # 0
    /\ \A j \in 1..(FirstBad(b) - 1) : b[j].k \in {"rec", "big", "blank"}

\* ------------------------------------------------------------------ claims
\* C1: in GenerateStream and ChatStream, a success answer whose body is N
\* well-formed records, only the last with done=true, gives a caller that
\* keeps receiving exactly the N events in body order, then a success
\* terminal signal, and no event after it.
C1_AllEventsThenSuccess ==
    (Streaming /\ op \in DoneOps /\ EndedUncancelled /\ DoneTerminatedBody(body))
        => /\ delivered = EventsOf(body)
           /\ SuccessSignal
           /\ terminalAt = Len(delivered)

\* C2: when the caller cancels after having received m events of an N-record
\* stream (m < N), it receives no further event: the total stays m.
C2_NoEventAfterCancel ==
    (Streaming /\ cancelled /\ cancelPc \in {"loop", "inLoop", "send"}
       /\ (DoneTerminatedBody(body) \/ UnterminatedBody(body))
       /\ cancelAt < Len(RecordIdx(body)))
        => Len(delivered) = cancelAt

\* C3: once the transport has returned a response, every exit path of a
\* streaming session closes the response body exactly once.
C3_BodyClosedOnce ==
    (op \in StreamOps /\ respReturned /\ pc = "done") => bodyCloses = 1

\* C4: a streaming session places at most one error on the error channel and
\* delivers no event after its terminal outcome was published.
C4_OneTerminalNoEventAfter ==
    op \in StreamOps
        => /\ Len(errLog) <= 1
           /\ (terminalAt # -1 => Len(delivered) = terminalAt)
           /\ (errClosed => pc = "done")

C4_Witness ==
    /\ op \in StreamOps
    /\ pc = "done"
    /\ Len(errLog) = 1
    /\ Len(delivered) >= 1
    /\ pos <= Len(body)

\* C5: with records 1..k-1 well-formed (no done=true) and record k
\* malformed, the caller receives exactly the k-1 events in order and then
\* exactly one decode error.
C5_PrefixThenDecodeError ==
    (Streaming /\ EndedUncancelled /\ MalformedAtK(body))
        => /\ delivered = EventsOf(SubSeq(body, 1, FirstBad(body) - 1))
           /\ Len(errLog) = 1
           /\ errLog[1] \in DecodeErrors

\* C6: when the context is cancelled during a streaming session, the error
\* channel carries the context's error itself.
C6_CancelledOutcome ==
    (Streaming /\ cancelled /\ cancelPc \in {"loop", "inLoop", "send"} /\ pc = "done")
        => errLog = <<CtxErr>>

\* C7: in every streaming operation a body of well-formed records, none with
\* done=true, is delivered whole and the session completes without error.
C7_ExhaustedIsSuccess ==
    (Streaming /\ EndedUncancelled /\ UnterminatedBody(body))
        => /\ delivered = EventsOf(body)
           /\ SuccessSignal

\* C8: in GenerateStream and ChatStream, once an event with done=true was
\* delivered it is the last one, no later record is decoded, and the session
\* ends with a success terminal signal.
C8_DoneIsTerminal ==
    (op \in DoneOps /\ \E i \in 1..Len(delivered) : delivered[i].done)
        => /\ delivered[Len(delivered)].done
           /\ \A i \in 1..(Len(delivered) - 1) : ~delivered[i].done
           /\ cur = delivered[Len(delivered)]
           /\ pc \in {"exit", "done"}
           /\ errLog = << >>
           /\ (pc = "done" => errClosed /\ respClosed)

C8_Witness ==
    /\ op \in DoneOps
    /\ pc = "done"
    /\ Len(delivered) >= 1
    /\ delivered[Len(delivered)].done
    /\ delivered[Len(delivered)].idx < Len(body)
    /\ SuccessSignal

\* C9: a request whose required identifier (Model or Name) is empty never
\* reaches the transport and fails with a RequestError; a streaming
\* operation puts that error on its error channel and delivers no event.
IdentifierOps == Ops \ {"ListModels", "CopyModel"}

C9_EmptyIdNoNetwork ==
    (op \in IdentifierOps /\ idEmpty)
        => /\ transportCalls = 0
           /\ ~respReturned
           /\ delivered = << >>
           /\ pc \in {"start", "exit", "done"}
           /\ (pc # "start" /\ op \in StreamOps => errLog = <<RequestError>>)
           /\ (pc # "start" /\ op \in CallOps => ret = RequestError)

C9_Witness ==
    /\ op \in StreamOps
    /\ idEmpty
    /\ pc = "done"
    /\ errLog = <<RequestError>>
    /\ errClosed

\* C10: a response is an error response exactly when its status is outside
\* 200..299.
GotResponseError ==
    \/ ret.type = "ResponseError"
    \/ \E i \in 1..Len(errLog) : errLog[i].type = "ResponseError"

C10_ErrorIffNot2xx ==
    (respReturned /\ pc = "done") => (GotResponseError <=> status \notin 200..299)

C12_BadContentTypeIsResponseError ==
    (op \in StreamOps /\ respReturned /\ status = 200 /\ ~ContentTypeOK(ctype) /\ pc = "done")
        => /\ delivered = << >>
           /\ Len(errLog) = 1
           /\ errLog[1].type = "ResponseError"

\* C13: the framing follows the Content-Type: with application/x-ndjson each
\* line is a record, with application/json the records are successive JSON
\* values that need no newline between them; every streaming operation
\* delivers one event per record under both.
C13_FramingByContentType ==
    (Streaming /\ EndedUncancelled
       /\ (\A i \in 1..Len(body) : body[i].k \in {"rec", "blank"})
       /\ (Contains(ctype, "application/x-ndjson") => OneRecordPerLine(body)))
        => /\ delivered = EventsOf(body)
           /\ SuccessSignal

\* C14: the caller cannot block the producer forever: every started streaming
\* session eventually reaches its terminal outcome, closes both channels and
\* releases the body, whether or not the caller keeps receiving.
Terminated ==
    /\ pc = "done"
    /\ errClosed
    /\ respClosed
    /\ (deferBody => bodyCloses = 1)

\* The body of every response the transport returned was closed once.
Released == respReturned => bodyCloses = 1

C14_AlwaysTerminates == op \in StreamOps => <>(Terminated /\ Released)

\* C14 as amended: the session terminates unless, from some point on, it
\* waits to hand over an event to a caller that neither receives nor cancels.
C14_TerminatesUnlessAbandoned ==
    op \in StreamOps => (<>Terminated \/ <>[](pc = "send" /\ ~cancelled))

C14_Witness ==
    /\ op \in StreamOps
    /\ Terminated
    /\ cancelPc = "send"
    /\ Len(delivered) < decoded

\* C15: the expiry of the client timeout during a streaming session has the
\* effect of a cancellation: the session ends with the Cancelled outcome
\* (the context's error on the error channel).
C15_TimeoutIsCancellation ==
    (Streaming /\ timedOut /\ ~cancelled /\ pc = "done") => errLog = <<CtxErr>>

\* C18: an error reaches the caller through the returned error or the error
\* channel only: the library writes nothing to standard output and drops no
\* error.
C18_ErrorsOnlyToCaller ==
    /\ stdout = << >>
    /\ (pc = "done" /\ respReturned /\ status # 200)
          => (ret # NoErr \/ errLog # << >>)

IsPrefixOf(s, t) == Len(s) <= Len(t) /\ s = SubSeq(t, 1, Len(s))

OwnEventsInOrder(s) ==
    /\ IsPrefixOf(s.delivered, EventsOf(s.body))
    /\ (s.pc = "done" /\ s.deferBody /\ ~s.cancelled /\ s.errLog = << >>)
          => s.delivered = EventsOf(s.body)

OneSessionPerStep == Sess(1)' = Sess(1) \/ Sess(2)' = Sess(2)

C19_SessionsIndependent ==
    /\ [](\A i \in {1, 2} : OwnEventsInOrder(Sess(i)))
    /\ [][OneSessionPerStep]_vars

\* Session 1 waits for a caller that never receives; session 2 has delivered
\* both events of its body and ended with success.
C19_Witness ==
    /\ Sess(1).pc = "send"
    /\ ~Sess(1).cancelled
    /\ Sess(2).pc = "done"
    /\ ~Sess(2).cancelled
    /\ Len(Sess(2).delivered) = 2
    /\ Sess(2).errLog = << >>
    /\ Sess(2).errClosed

\* C21: after the context is cancelled a streaming session always eventually
\* terminates: it closes the response channel and the error channel and
\* closes the body of the response, whether it waited for bytes of the body
\* or for the caller to receive an event, even if the caller never receives
\* again.
C21_CancelledTerminates ==
    (op \in StreamOps /\ cancelled) ~> (Terminated /\ Released)

\* The same for the sessions that were handed a response by requestStream.
CancelledTerminatesOwnBody ==
    (op \in StreamOps /\ cancelled) ~> Terminated

\* C22: no operation modifies the request the caller holds: its Stream field
\* never changes, and the forced stream=true / stream=false is set in the
\* operation's own copy.
ForcedStream ==
    (pc # "start" /\ ~RequiredIdMissing(op, idEmpty))
        => /\ (op \in StreamOps => reqStream)
           /\ (op \in UnaryStreamOps => ~reqStream)

C22_CallerRequestUnchanged ==
    /\ [][callerStream' = callerStream]_vars
    /\ []ForcedStream

C22_Witness ==
    /\ op \in StreamOps
    /\ pc = "done"
    /\ reqStream
    /\ ~callerStream

\* C23: the session goroutine never blocks on the error channel: whenever it
\* is still running the channel has room for the one error a path sends, and
\* once an error is in the channel the session terminates and closes both
\* channels, whether or not the caller ever reads it.
ErrChanHasRoom ==
    (op \in StreamOps /\ pc \notin {"exit", "done"}) => Len(errChan) < ErrChanCap

C23_NeverBlocksOnErrChan ==
    /\ []ErrChanHasRoom
    /\ (op \in StreamOps /\ errChan # << >>) ~> Terminated

\* The error that followed an event was never read and the session is over.
C23_Witness ==
    /\ op \in StreamOps
    /\ Terminated
    /\ Len(delivered) = 1
    /\ errChan # << >>
    /\ errChan = errLog

\* C24: streamingGeneration returns nil only when the streaming session ended
\* without an error: whenever the session puts an error on the error channel
\* the function returns a non-nil error, however its select falls.
C24_NilOnlyWithoutError == exampleRet = "nil" => errLog = << >>

\* C25: when the body ends in the middle of a record, the session delivers
\* all the complete records before it, in order, and then ends with an error
\* on the error channel; the truncated record is neither delivered nor
\* reported as normal completion.
EndsTruncated(b) == b # << >> /\ b[Len(b)].k = "trunc"

Complete(b) == SubSeq(b, 1, Len(b) - 1)

C25_TruncatedIsError ==
    (Streaming /\ EndedUncancelled /\ EndsTruncated(body))
        => /\ delivered = EventsOf(Complete(body))
           /\ Len(errLog) = 1

\* The same for bodies whose complete records all fit the Scanner's buffer
\* and none of which has done=true.
TruncatedAfterPlainRecords ==
    (Streaming /\ EndedUncancelled /\ EndsTruncated(body)
       /\ \A i \in 1..Len(Complete(body)) : body[i].k = "rec")
        => /\ delivered = EventsOf(Complete(body))
           /\ Len(errLog) = 1
           /\ errLog[1].type \in {"failed to decode response", "decode error"}

\* C26: in PullModelStream and PushModelStream no record content ends the
\* session: a record with a non-empty error field or a final status is
\* delivered as an ordinary event, nothing is put on the error channel for
\* it, and the records after it are delivered too; an uncancelled session
\* over well-formed records ends at the end of the body.
C26_ProgressContentNeverEnds ==
    /\ (op \in ProgressOps /\ pc = "exit" /\ errLog = << >>) => pos > Len(body)
    /\ (op \in ProgressOps /\ Streaming /\ EndedUncancelled)
          => /\ delivered = EventsOf(body)
             /\ errLog = << >>

\* An error record and a final status were delivered, and the record after
\* them too.
C26_Witness ==
    /\ op \in ProgressOps
    /\ pc = "done"
    /\ Len(body) = 3
    /\ body[1].k = "err"
    /\ body[2].k = "done"
    /\ Len(delivered) = 3
    /\ errLog = << >>

\* C16: for a host string without a port (with or without scheme, with or
\* without a trailing slash) parseHost returns scheme://host:port with the
\* default port right after the host name; the empty host gives
\* http://127.0.0.1:11434.
HostName(h) == IF HasScheme(h) THEN TrimSlash(Tail(h)) ELSE TrimSlash(h)

\* A scheme or none, a host name of letters and digits, a slash or none.
PortlessHost(h) ==
    /\ HostName(h) # << >>
    /\ \A i \in 1..Len(HostName(h)) : HostName(h)[i] \in {"a", "8"}

C16_DefaultPortAfterHost ==
    /\ (host = << >> => baseURL = <<"http://", "127.0.0.1", ":", "11434">>)
    /\ (PortlessHost(host)
          => baseURL = (IF HasScheme(host) THEN <<host[1]>> ELSE <<"http://">>)
                       \o HostName(host)
                       \o (IF HasScheme(host) /\ host[1] = "https://"
                           THEN <<":", "443">> ELSE <<":", "11434">>))

\* C17: the base URL returned by parseHost never ends with a slash.
C17_NoTrailingSlash == baseURL[Len(baseURL)] # "/"
====
